---- MODULE Spec2Model ----
(***************************************************************************)
(* A model of coverage/data.py: the CoverageData store.  The store keeps   *)
(* two dictionaries (self.lines, self.arcs), a use_file flag and a file    *)
(* name; it pickles a dict {'lines', 'arcs', 'collector'} to that file,    *)
(* reads it back defensively, and merges every directory entry whose name  *)
(* starts with the file's own name.                                        *)
(*                                                                         *)
(* Python dicts used as sets ({lineno: None}) are modelled by their key    *)
(* sets; a dict is a function whose DOMAIN is its key set.  A path is the  *)
(* sequence of its components, a directory entry name is the sequence of   *)
(* its characters, so that basename and startswith are computed.           *)
(***************************************************************************)
EXTENDS Integers, Sequences, FiniteSets, TLC

\* ---------------------------------------------------------------- bounds
\* Line numbers the collector reports are 1..MaxLine.
MaxLine == 2
\* Arc pairs the collector reports are <<i, i+1>> for i in 1..MaxArc.
MaxArc == 1

Lines == 1..MaxLine
ArcPairs == {<<i, i + 1>> : i \in 1..MaxArc}

\* Source files measured: two paths sharing the base name, as in /x/mod.py
\* and /y/mod.py.
SrcFiles == {<<"x", "mod.py">>, <<"y", "mod.py">>}
\* A third measured file with a base name of its own (used by SpecSummary).
MoreFiles == SrcFiles \cup {<<"x", "a.py">>}
\* Files for which the collector reports arcs.
ArcFiles == {<<"x", "mod.py">>}

\* ------------------------------------------------------- dicts as functions
EmptyMap == [f \in {} |-> {}]

\* All dicts from a subset of files to a subset of vals.
Dicts(files, vals) == UNION {[F -> SUBSET vals] : F \in SUBSET files}

\* Inputs of add_line_data and add_arc_data.
LineInputs == Dicts(SrcFiles, Lines)
ArcInputs == Dicts(ArcFiles, ArcPairs)

\* ------------------------------------------------------------ the data file
\* self.filename split into directory and local name: the local name.
Local == <<"c", "o", "v">>
Sib1 == Local \o <<".", "1">>
Sib2 == Local \o <<".", "2">>
Other == <<"x">> \o Local
DirNames == {Local, Sib1, Sib2, Other}

\* The `collector` argument of the constructor.
collector == "coverage v3"

\* What a directory entry holds.  kind "absent": no such entry; "unreadable":
\* open(filename, 'rb') raises (no permission to read); "garbage": pickle.load raises
\* (truncated or corrupt bytes); "nondict": unpickles to something that is
\* not a dict; "dict": unpickles to the dict `data`.
NoFile == [kind |-> "absent", data |-> EmptyMap]
Unreadable == [kind |-> "unreadable", data |-> EmptyMap]
Garbage == [kind |-> "garbage", data |-> EmptyMap]
NonDict == [kind |-> "nondict", data |-> EmptyMap]
Pickled(d) == [kind |-> "dict", data |-> d]

\* A value stored under 'lines' or 'arcs': a dict from file to entries
\* (shape "map") or something without .items() (shape "other").  An entry is
\* a list (iterable) or something dict.fromkeys cannot iterate.
ListEntry(s) == [iterable |-> TRUE, items |-> s]
ScalarEntry == [iterable |-> FALSE, items |-> <<>>]
MapValue(m) == [shape |-> "map", map |-> m]
NotAMap == [shape |-> "other", map |-> EmptyMap]

\* ------------------------------------------------------------- serialization
\* sorted(lmap.keys()) for line numbers.
RECURSIVE sorted_lines(_)
sorted_lines(S) ==
    IF S = {} THEN <<>>
    ELSE LET m == CHOOSE x \in S : \A y \in S : x <= y
         IN <<m>> \o sorted_lines(S \ {m})

\* Python's tuple order on pairs: lexicographic.
PairLeq(a, b) == a[1] < b[1] \/ (a[1] = b[1] /\ a[2] <= b[2])

\* sorted(amap.keys()) for arc pairs.
RECURSIVE sorted_arcs(_)
sorted_arcs(S) ==
    IF S = {} THEN <<>>
    ELSE LET m == CHOOSE x \in S : \A y \in S : PairLeq(x, y)
         IN <<m>> \o sorted_arcs(S \ {m})

\* line_data(): the map from file names to sorted lists of line numbers.
line_data(ls) == [f \in DOMAIN ls |-> sorted_lines(ls[f])]

\* arc_data(): the map from file names to sorted lists of line number pairs.
arc_data(as) == [f \in DOMAIN as |-> sorted_arcs(as[f])]

\* A dict of lists as it is pickled: by value.
PickleMap(d) == MapValue([f \in DOMAIN d |-> ListEntry(d[f])])

\* Mutant of file_data: 'arcs' is written only if some file has a non-empty
\* arc set.
file_data_arcs_if_some_pair(ls, as) ==
    LET data0 == "lines" :> PickleMap(line_data(ls))
        data1 == IF \E f \in DOMAIN as : as[f] # {}
                 THEN data0 @@ ("arcs" :> PickleMap(arc_data(as)))
                 ELSE data0
    IN IF collector # ""
       THEN data1 @@ ("collector" :> collector)
       ELSE data1

\* Mutant of file_data: 'arcs' is always written.
file_data_arcs_always(ls, as) ==
    LET data1 == "lines" :> PickleMap(line_data(ls))
                 @@ "arcs" :> PickleMap(arc_data(as))
    IN IF collector # ""
       THEN data1 @@ ("collector" :> collector)
       ELSE data1

\* The dict write_file pickles: 'lines' always, 'arcs' if arc_data() is a
\* non-empty dict, 'collector' if one was given.
file_data(ls, as) ==
    LET data0 == "lines" :> PickleMap(line_data(ls))
        data1 == IF DOMAIN arc_data(as) # {}
                 THEN data0 @@ ("arcs" :> PickleMap(arc_data(as)))
                 ELSE data0
    IN IF collector # ""
       THEN data1 @@ ("collector" :> collector)
       ELSE data1

\* write_file(filename): the directory after the pickle is written.  An error
\* of open or dump goes to the caller and is left out: the write succeeds.
write_file(d, name, ls, as) == [d EXCEPT ![name] = Pickled(file_data(ls, as))]

\* dict.fromkeys(seq, None), as its key set.
fromkeys(s) == {s[i] : i \in 1..Len(s)}

\* data.get(key, {})
DataGet(data, key) == IF key \in DOMAIN data THEN data[key] ELSE MapValue(EmptyMap)

\* Does dict([(f, dict.fromkeys(v)) for f, v in value.items()]) raise?
UnpackRaises(v) ==
    \/ v.shape # "map"
    \/ \E f \in DOMAIN v.map : ~v.map[f].iterable

\* dict([(f, dict.fromkeys(v, None)) for f, v in value.items()])
Unpack(v) == [f \in DOMAIN v.map |-> fromkeys(v.map[f].items)]

\* raw_data(filename) raises unless the file opens and unpickles.
raw_data_raises(c) == c.kind \in {"absent", "unreadable", "garbage"}

\* _read_file(filename): lines and arcs start empty; an exception anywhere in
\* the try block leaves whatever was assigned before it.
_read_file(c) ==
    IF raw_data_raises(c) \/ c.kind # "dict"
    THEN [lines |-> EmptyMap, arcs |-> EmptyMap]
    ELSE IF UnpackRaises(DataGet(c.data, "lines"))
    THEN [lines |-> EmptyMap, arcs |-> EmptyMap]
    ELSE IF UnpackRaises(DataGet(c.data, "arcs"))
    THEN [lines |-> Unpack(DataGet(c.data, "lines")), arcs |-> EmptyMap]
    ELSE [lines |-> Unpack(DataGet(c.data, "lines")),
          arcs |-> Unpack(DataGet(c.data, "arcs"))]

\* ------------------------------------------------------------- accumulation
\* Mutant of setdefault_update: old[k] = v, the new set replaces the old one.
setdefault_assign(old, new) ==
    [f \in DOMAIN old \cup DOMAIN new |->
        IF f \in DOMAIN new THEN new[f] ELSE old[f]]

\* Mutant of setdefault_update: only files that have an entry are updated.
update_known_files(old, new) ==
    [f \in DOMAIN old |->
        old[f] \cup (IF f \in DOMAIN new THEN new[f] ELSE {})]

\* for k, v in new.items(): old.setdefault(k, {}).update(v)
setdefault_update(old, new) ==
    [f \in DOMAIN old \cup DOMAIN new |->
        (IF f \in DOMAIN old THEN old[f] ELSE {})
        \cup (IF f \in DOMAIN new THEN new[f] ELSE {})]

\* ------------------------------------------------------------------ combine
\* f.startswith(local)
startswith(f, prefix) ==
    Len(f) >= Len(prefix) /\ SubSeq(f, 1, Len(prefix)) = prefix

\* os.listdir(data_dir): the names of the entries that exist.
listdir(d) == {n \in DOMAIN d : d[n].kind # "absent"}

\* Every order in which os.listdir may return the entries.
RECURSIVE Orders(_)
Orders(S) ==
    IF S = {} THEN {<<>>}
    ELSE UNION {{<<n>> \o o : o \in Orders(S \ {n})} : n \in S}

\* Mutant of combine_entry: the arcs of the record are merged too.
combine_entry_with_arcs(st, d, f) ==
    IF startswith(f, Local)
    THEN [lines |-> setdefault_update(st.lines, _read_file(d[f]).lines),
          arcs |-> setdefault_update(st.arcs, _read_file(d[f]).arcs)]
    ELSE st

\* The body of combine_parallel_data's loop for one directory entry: the
\* record is read, its lines are merged, its arcs are dropped.
combine_entry(st, d, f) ==
    IF startswith(f, Local)
    THEN [lines |-> setdefault_update(st.lines, _read_file(d[f]).lines),
          arcs |-> st.arcs]
    ELSE st

\* combine_parallel_data's loop over the listing `order`.
RECURSIVE combine_loop(_, _, _)
combine_loop(st, d, order) ==
    IF order = <<>> THEN st
    ELSE combine_loop(combine_entry(st, d, Head(order)), d, Tail(order))

\* ------------------------------------------------------------------ queries
\* executed_files()
executed_files(ls) == DOMAIN ls

\* executed_lines(filename): self.lines.get(filename) or {}
executed_lines(ls, f) == IF f \in DOMAIN ls THEN ls[f] ELSE {}

\* executed_arcs(filename)
executed_arcs(as, f) == IF f \in DOMAIN as THEN as[f] ELSE {}

\* os.path.basename, as a path of one component.
basename(p) == <<p[Len(p)]>>

\* filename_fn in summary()
filename_fn(fullpath, f) == IF fullpath THEN f ELSE basename(f)

\* Mutant of summary_loop: the counts of files with the same key are added.
RECURSIVE summary_loop_adding(_, _, _, _)
summary_loop_adding(summ0, ls, fullpath, order) ==
    IF order = <<>> THEN summ0
    ELSE LET f == Head(order)
             k == filename_fn(fullpath, f)
         IN summary_loop_adding(
                [x \in DOMAIN summ0 \cup {k} |->
                    IF x = k
                    THEN Cardinality(ls[f])
                         + (IF k \in DOMAIN summ0 THEN summ0[k] ELSE 0)
                    ELSE summ0[x]],
                ls, fullpath, Tail(order))

\* summary(): summ[filename_fn(filename)] = len(lines), the files taken in
\* the order `order` of self.lines.items(); a later file overwrites an
\* earlier one that has the same key.
RECURSIVE summary_loop(_, _, _, _)
summary_loop(summ0, ls, fullpath, order) ==
    IF order = <<>> THEN summ0
    ELSE LET f == Head(order)
             k == filename_fn(fullpath, f)
         IN summary_loop(
                [x \in DOMAIN summ0 \cup {k} |->
                    IF x = k THEN Cardinality(ls[f]) ELSE summ0[x]],
                ls, fullpath, Tail(order))

\* -------------------------------------------------------------------- state
VARIABLES
    lines,      \* self.lines: file -> set of executed line numbers
    arcs,       \* self.arcs: file -> set of executed arc pairs
    use_file,   \* self.use_file
    disk,       \* the directory of self.filename: entry name -> content
    op,         \* the operation called last
    ret,        \* what the last summary() call was given and returned
    base,       \* the maps as they were when `calls` started to be recorded
    calls       \* the add_line_data arguments recorded since then

vars == <<lines, arcs, use_file, disk, op, ret, base, calls>>

NoRet == [fullpath |-> FALSE, summ |-> EmptyMap]
NoBase == [lines |-> EmptyMap, arcs |-> EmptyMap]

X == <<"x", "mod.py">>
Y == <<"y", "mod.py">>

\* Data files found on disk.  They hold line numbers within 1..MaxLine.
\* A record of one file.
RecOne == Pickled("lines" :> PickleMap(X :> <<1>>))
\* A record of two files, with arcs, as write_file leaves it.
RecTwo == Pickled(file_data(X :> Lines @@ Y :> {MaxLine}, X :> ArcPairs))
\* A dict whose 'lines' are fine and whose 'arcs' value is not a dict.
RecBadArcs == Pickled("lines" :> PickleMap(Y :> <<1>>) @@ "arcs" :> NotAMap)
\* A dict whose 'lines' value is not a dict and whose 'arcs' are fine.
RecBadLines ==
    Pickled("lines" :> NotAMap @@ "arcs" :> PickleMap(X :> sorted_arcs(ArcPairs)))
\* A dict whose 'lines' maps a file to something that is not a sequence.
RecBadEntry == Pickled("lines" :> MapValue(X :> ScalarEntry @@ Y :> ListEntry(<<1>>)))
\* A dict with neither key.
RecNoKeys == Pickled("collector" :> collector)

\* What the store's own file may hold before the store is constructed.
OwnSamples ==
    {NoFile, Unreadable, Garbage, NonDict, RecNoKeys, RecBadArcs, RecBadLines,
     RecBadEntry}
\* What a sibling data file may hold.
SiblingSamples ==
    <<Unreadable, Garbage, NonDict, RecOne, RecTwo, RecBadArcs, RecBadLines,
      RecBadEntry>>

\* __init__: empty maps, use_file = True.
Init ==
    /\ lines = EmptyMap
    /\ arcs = EmptyMap
    /\ use_file = TRUE
    /\ \E own \in OwnSamples :
          disk = (Local :> own @@ Sib1 :> RecTwo @@ Sib2 :> Garbage
                  @@ Other :> RecOne)
    /\ op = "init"
    /\ ret = NoRet
    /\ base = NoBase
    /\ calls = <<>>

\* usefile(use_file)
usefile(flag) ==
    /\ use_file' = flag
    /\ op' = "usefile"
    /\ ret' = NoRet
    /\ UNCHANGED <<lines, arcs, disk, base, calls>>

\* read()
read ==
    /\ IF use_file
       THEN /\ lines' = _read_file(disk[Local]).lines
            /\ arcs' = _read_file(disk[Local]).arcs
       ELSE /\ lines' = EmptyMap
            /\ arcs' = EmptyMap
    /\ op' = "read"
    /\ ret' = NoRet
    /\ UNCHANGED <<use_file, disk, base, calls>>

\* write()
write ==
    /\ IF use_file
       THEN disk' = write_file(disk, Local, lines, arcs)
       ELSE disk' = disk
    /\ op' = "write"
    /\ ret' = NoRet
    /\ UNCHANGED <<lines, arcs, use_file, base, calls>>

\* Mutant of erase_file: every entry that starts with the file name is removed.
erase_file_by_prefix(d, flag) ==
    IF flag
    THEN [n \in DOMAIN d |-> IF startswith(n, Local) THEN NoFile ELSE d[n]]
    ELSE d

\* Mutant of erase_file: the file is removed whatever use_file says.
erase_file_always(d, flag) ==
    IF d[Local].kind # "absent"
    THEN [d EXCEPT ![Local] = NoFile]
    ELSE d

\* The directory after erase(): os.remove(self.filename) if it is in use and
\* exists.
erase_file(d, flag) ==
    IF flag /\ d[Local].kind # "absent"
    THEN [d EXCEPT ![Local] = NoFile]
    ELSE d

\* erase()
erase ==
    /\ disk' = erase_file(disk, use_file)
    /\ lines' = EmptyMap
    /\ arcs' = EmptyMap
    /\ op' = "erase"
    /\ ret' = NoRet
    /\ UNCHANGED <<use_file, base, calls>>

\* add_line_data(line_data): what it does to the store.
add_line_data_effect(ld) ==
    /\ lines' = setdefault_update(lines, ld)
    /\ op' = "add_line_data"
    /\ ret' = NoRet
    /\ UNCHANGED <<arcs, use_file, disk>>

\* add_line_data(line_data)
add_line_data(ld) ==
    /\ add_line_data_effect(ld)
    /\ UNCHANGED <<base, calls>>

\* add_arc_data(arc_data)
add_arc_data(ad) ==
    /\ arcs' = setdefault_update(arcs, ad)
    /\ op' = "add_arc_data"
    /\ ret' = NoRet
    /\ UNCHANGED <<lines, use_file, disk, base, calls>>

\* combine_parallel_data(), os.listdir returning the entries in `order`.
combine_parallel_data(order) ==
    /\ lines' = combine_loop([lines |-> lines, arcs |-> arcs], disk, order).lines
    /\ arcs' = combine_loop([lines |-> lines, arcs |-> arcs], disk, order).arcs
    /\ op' = "combine_parallel_data"
    /\ ret' = NoRet
    /\ UNCHANGED <<use_file, disk, base, calls>>

\* summary(fullpath), self.lines.items() iterating in `order`.
summary(fullpath, order) ==
    /\ ret' = [fullpath |-> fullpath,
               summ |-> summary_loop(EmptyMap, lines, fullpath, order)]
    /\ op' = "summary"
    /\ UNCHANGED <<lines, arcs, use_file, disk, base, calls>>

UseFile == \E flag \in BOOLEAN : usefile(flag)
AddLineData == \E ld \in LineInputs : add_line_data(ld)
AddArcData == \E ad \in ArcInputs : add_arc_data(ad)
CombineParallelData == \E order \in Orders(listdir(disk)) : combine_parallel_data(order)
Summary == \E fullpath \in BOOLEAN, order \in Orders(DOMAIN lines) : summary(fullpath, order)

Next ==
    \/ UseFile
    \/ read
    \/ write
    \/ erase
    \/ AddLineData
    \/ AddArcData
    \/ CombineParallelData
    \/ Summary

Spec == Init /\ [][Next]_vars

\* ------------------------------------------------ combining sibling files
\* The store is constructed in a directory where parallel runs left their
\* data files; lines and arcs are added and the files are combined.  The two
\* siblings differ only in their names and the listing takes them in either
\* order, so their contents are drawn as unordered pairs.
InitCombine ==
    /\ lines = EmptyMap
    /\ arcs = EmptyMap
    /\ use_file = TRUE
    /\ \E own \in {NoFile, RecOne}, i \in DOMAIN SiblingSamples,
          j \in DOMAIN SiblingSamples :
          /\ i <= j
          /\ disk = (Local :> own @@ Sib1 :> SiblingSamples[i]
                     @@ Sib2 :> SiblingSamples[j] @@ Other :> RecTwo)
    /\ op = "init"
    /\ ret = NoRet
    /\ base = NoBase
    /\ calls = <<>>

NextCombine ==
    \/ AddLineData
    \/ AddArcData
    \/ CombineParallelData

SpecCombine == InitCombine /\ [][NextCombine]_vars

\* ---------------------------------------------- reading, writing, erasing
\* The store holds any maps add_line_data and add_arc_data can have built
\* (arcs for either file), its file holds anything a previous run can have
\* left, and the file operations are called in any order.
InitIO ==
    /\ lines \in Dicts(SrcFiles, Lines)
    /\ arcs \in Dicts(SrcFiles, ArcPairs)
    /\ use_file = TRUE
    /\ \E own \in OwnSamples :
          disk = (Local :> own @@ Sib1 :> RecTwo @@ Sib2 :> Garbage
                  @@ Other :> RecOne)
    /\ op = "init"
    /\ ret = NoRet
    /\ base = NoBase
    /\ calls = <<>>

NextIO ==
    \/ UseFile
    \/ read
    \/ write
    \/ erase

SpecIO == InitIO /\ [][NextIO]_vars

\* ------------------------------------------- two calls of add_line_data
\* The store holds any maps add_line_data and add_arc_data can have built;
\* add_line_data is then called twice and the arguments are recorded.
InitAdd ==
    /\ lines \in Dicts(SrcFiles, Lines)
    /\ arcs \in Dicts(ArcFiles, ArcPairs)
    /\ use_file = TRUE
    /\ disk = (Local :> RecOne @@ Sib1 :> RecTwo @@ Sib2 :> Garbage
               @@ Other :> RecOne)
    /\ op = "init"
    /\ ret = NoRet
    /\ base = [lines |-> lines, arcs |-> arcs]
    /\ calls = <<>>

RecordedAddLineData ==
    /\ Len(calls) < 2
    /\ \E ld \in LineInputs :
          /\ add_line_data_effect(ld)
          /\ calls' = Append(calls, ld)
          /\ UNCHANGED base

NextAdd == RecordedAddLineData

SpecAdd == InitAdd /\ [][NextAdd]_vars

\* ------------------------------------------------------------- summaries
\* Lines are added for three files, two of which share a base name, and
\* summaries are asked for.
AddLineDataMore == \E ld \in Dicts(MoreFiles, Lines) : add_line_data(ld)

InitSummary ==
    /\ lines = EmptyMap
    /\ arcs = EmptyMap
    /\ use_file = TRUE
    /\ disk = (Local :> NoFile @@ Sib1 :> NoFile @@ Sib2 :> NoFile
               @@ Other :> NoFile)
    /\ op = "init"
    /\ ret = NoRet
    /\ base = NoBase
    /\ calls = <<>>

NextSummary ==
    \/ AddLineDataMore
    \/ Summary

SpecSummary == InitSummary /\ [][NextSummary]_vars

\* =================================================================== claims
\* The entries of the directory whose names start with the store's file name.
PrefixNames == {Local, Sib1, Sib2}

\* The content is a record of the expected shape: a dict whose 'lines' and
\* 'arcs' values, where present, map files to sequences.
IsRecord(c) ==
    /\ c.kind = "dict"
    /\ \A k \in {"lines", "arcs"} \cap DOMAIN c.data :
          /\ c.data[k].shape = "map"
          /\ \A f \in DOMAIN c.data[k].map : c.data[k].map[f].iterable

\* The line numbers a record of the expected shape holds for file f.
RecordedLines(c, f) ==
    IF "lines" \in DOMAIN c.data /\ f \in DOMAIN c.data["lines"].map
    THEN {c.data["lines"].map[f].items[i] :
             i \in 1..Len(c.data["lines"].map[f].items)}
    ELSE {}

\* C1: after write() with file storage enabled, a read() of the same path
\* (which replaces the maps wholesale, as in a fresh store) yields the
\* line_data() and arc_data() the writing store had.
C1_RoundTrip ==
    [][(op = "write" /\ use_file /\ op' = "read")
        => /\ line_data(lines') = line_data(lines)
           /\ arc_data(arcs') = arc_data(arcs)]_vars

\* C1 witness: a read has returned what was written, for a state with a file
\* that has an empty arc set and no lines, and a file with lines and no arcs.
C1_Witness ==
    /\ op = "read"
    /\ use_file
    /\ disk[Local] = Pickled(file_data(lines, arcs))
    /\ DOMAIN lines = {Y}
    /\ lines[Y] = Lines
    /\ DOMAIN arcs = {X}
    /\ arcs[X] = {}

\* C2: after combine_parallel_data(), every file's executed lines are the
\* lines held before united with the lines recorded for it in every
\* prefix-matching entry that is a record of the expected shape; every other
\* entry contributes nothing.
C2_CombineUnion ==
    [][op' = "combine_parallel_data"
        => \A f \in SrcFiles :
              executed_lines(lines', f)
                = executed_lines(lines, f)
                  \cup UNION {RecordedLines(disk[n], f) :
                                n \in {m \in PrefixNames : IsRecord(disk[m])}}]_vars

\* The entries of the directory in one fixed order.
FixedOrder ==
    SelectSeq(<<Other, Sib2, Sib1, Local>>, LAMBDA n : n \in listdir(disk))

\* C2, as far as the code goes: the union is over the prefix-matching entries
\* whose 'lines' value unpacks, whether or not their 'arcs' value does.
C2_UnionOfUnpackedLines ==
    [][op' = "combine_parallel_data"
        => \A f \in SrcFiles :
              executed_lines(lines', f)
                = executed_lines(lines, f)
                  \cup UNION {RecordedLines(disk[n], f) :
                                n \in {m \in PrefixNames :
                                         /\ disk[m].kind = "dict"
                                         /\ IsRecord([disk[m] EXCEPT
                                               !.data = [k \in DOMAIN @ \ {"arcs"}
                                                            |-> @[k]]])}}]_vars

\* C3: combine_parallel_data() yields the same line data whatever the order
\* of the directory listing: every order agrees with one fixed order.
C3_OrderIndependent ==
    [][op' = "combine_parallel_data"
        => line_data(lines')
             = line_data(combine_loop([lines |-> lines, arcs |-> arcs], disk,
                                      FixedOrder).lines)]_vars

\* C3 witness: a combine over two siblings that hold different lines for the
\* same file, and a store that held lines of its own.
C3_Witness ==
    /\ op = "combine_parallel_data"
    /\ disk[Sib1] = RecOne
    /\ disk[Sib2] = RecTwo
    /\ disk[Local] = NoFile
    /\ DOMAIN lines = SrcFiles
    /\ lines[X] = Lines
    /\ lines[Y] = Lines

\* The set argument `n` of the recorded calls gave for file f.
CallLines(n, f) == IF f \in DOMAIN calls[n] THEN calls[n][f] ELSE {}

\* C4: after two add_line_data calls, every file's executed lines are what
\* the store held before united with both arguments; a file has an entry iff
\* it had one or an argument names it; arcs and the disk are untouched.
C4_AddUnion ==
    Len(calls) = 2
    => /\ \A f \in SrcFiles :
             executed_lines(lines, f)
               = executed_lines(base.lines, f) \cup CallLines(1, f) \cup CallLines(2, f)
       /\ executed_files(lines)
            = DOMAIN base.lines \cup DOMAIN calls[1] \cup DOMAIN calls[2]
       /\ arcs = base.arcs
       /\ disk = (Local :> RecOne @@ Sib1 :> RecTwo @@ Sib2 :> Garbage
                  @@ Other :> RecOne)

\* C4 witness: two calls for the same new file with different sets, while
\* another file keeps its lines.
C4_Witness ==
    /\ Len(calls) = 2
    /\ DOMAIN base.lines = {Y}
    /\ base.lines[Y] = {1}
    /\ calls[1] = (X :> {1})
    /\ calls[2] = (X :> {MaxLine})
    /\ lines[X] = {1, MaxLine}
    /\ lines[Y] = {1}

\* C5: after erase() no file is executed, the arc map is empty, the store's
\* own file is gone if file storage is enabled, and every other entry of the
\* directory is as it was.
C5_Erase ==
    [][op' = "erase"
        => /\ executed_files(lines') = {}
           /\ arcs' = EmptyMap
           /\ (use_file => disk'[Local].kind = "absent")
           /\ \A n \in DirNames \ {Local} : disk'[n] = disk[n]]_vars

\* C5 witness: erase has acted with file storage enabled; the own file is
\* gone and the prefix-matching siblings are still there.
C5_Witness ==
    /\ op = "erase"
    /\ use_file
    /\ disk[Local] = NoFile
    /\ disk[Sib1] = RecTwo
    /\ disk[Sib2] = Garbage

\* C6: read() of a file that is missing, unreadable or not a record of the
\* expected shape leaves the store with empty line and arc maps.
C6_DefensiveRead ==
    [][(op' = "read" /\ use_file /\ ~IsRecord(disk[Local]))
        => /\ lines' = EmptyMap
           /\ arcs' = EmptyMap]_vars

\* C6, as far as the code goes: both maps are empty unless the file is a dict
\* whose 'lines' value unpacks; then the lines are kept and only a bad 'arcs'
\* value is dropped.
C6_ReadUnlessLinesUnpack ==
    [][(op' = "read" /\ use_file /\ ~IsRecord(disk[Local]))
        => /\ arcs' = EmptyMap
           /\ \/ lines' = EmptyMap
              \/ /\ disk[Local].kind = "dict"
                 /\ "arcs" \in DOMAIN disk[Local].data
                 /\ \A f \in DOMAIN lines' :
                       lines'[f] = RecordedLines(disk[Local], f)]_vars

\* C7 as claimed: the written record has 'lines' with every file of the line
\* map, and has 'arcs' only when some file has a non-empty arc set.
C7_ArcsKeyOnlyIfNonEmptySet ==
    (op = "write" /\ use_file)
    => /\ "lines" \in DOMAIN disk[Local].data
       /\ DOMAIN disk[Local].data["lines"].map = DOMAIN lines
       /\ ("arcs" \in DOMAIN disk[Local].data
             => \E f \in DOMAIN arcs : arcs[f] # {})

\* C7 amended: the written record has 'lines' with every file of the line
\* map, and has 'arcs' exactly when the arc map has at least one file, even
\* if every arc set is empty; with an empty arc map it has no 'arcs' key.
C7_ArcsKeyIffArcMapNonEmpty ==
    (op = "write" /\ use_file)
    => /\ "lines" \in DOMAIN disk[Local].data
       /\ DOMAIN disk[Local].data["lines"].map = DOMAIN lines
       /\ ("arcs" \in DOMAIN disk[Local].data <=> DOMAIN arcs # {})
       /\ ("arcs" \in DOMAIN disk[Local].data
             => DOMAIN disk[Local].data["arcs"].map = DOMAIN arcs)

\* C7 witness: a write of a store whose only arc entry is an empty set; the
\* record has the 'arcs' key.
C7_Witness ==
    /\ op = "write"
    /\ use_file
    /\ DOMAIN arcs = {X}
    /\ arcs[X] = {}
    /\ "arcs" \in DOMAIN disk[Local].data

\* C8: with file storage disabled write() and erase() leave the disk as it
\* is, erase() empties the maps, write() leaves them, and read() empties the
\* maps whatever the file holds.
C8_NoFile ==
    [][~use_file
        => /\ (op' = "write" => disk' = disk /\ lines' = lines /\ arcs' = arcs)
           /\ (op' = "erase"
                 => disk' = disk /\ lines' = EmptyMap /\ arcs' = EmptyMap)
           /\ (op' = "read"
                 => disk' = disk /\ lines' = EmptyMap /\ arcs' = EmptyMap)]_vars

\* C8 witness: with file storage disabled, a read has emptied the maps while
\* the file holds a record with lines and arcs.
C8_Witness ==
    /\ op = "read"
    /\ ~use_file
    /\ lines = EmptyMap
    /\ arcs = EmptyMap
    /\ IsRecord(disk[Local])
    /\ RecordedLines(disk[Local], Y) = Lines
    /\ "arcs" \in DOMAIN disk[Local].data

\* C9: summary(fullpath=True) has one entry per file of the line map, the
\* count of its lines; summary(fullpath=False) has one entry per base name,
\* the count of the lines of one of the files with that base name.
C9_Summary ==
    op = "summary"
    => IF ret.fullpath
       THEN /\ DOMAIN ret.summ = DOMAIN lines
            /\ \A f \in DOMAIN lines : ret.summ[f] = Cardinality(lines[f])
       ELSE /\ DOMAIN ret.summ = {<<f[Len(f)]>> : f \in DOMAIN lines}
            /\ \A k \in DOMAIN ret.summ :
                  \E f \in DOMAIN lines :
                     /\ <<f[Len(f)]>> = k
                     /\ ret.summ[k] = Cardinality(lines[f])

\* C9 witness: a base-name summary of two colliding files with different
\* counts and a third file; the colliding key carries the larger count.
C9_Witness ==
    /\ op = "summary"
    /\ ~ret.fullpath
    /\ DOMAIN lines = MoreFiles
    /\ lines[X] = {1}
    /\ lines[Y] = Lines
    /\ DOMAIN ret.summ = {<<"mod.py">>, <<"a.py">>}
    /\ ret.summ[<<"mod.py">>] = MaxLine

\* C10: combine_parallel_data() leaves arc_data() and every file on disk as
\* they were.
C10_CombineKeepsArcs ==
    [][op' = "combine_parallel_data"
        => /\ arc_data(arcs') = arc_data(arcs)
           /\ arcs' = arcs
           /\ disk' = disk]_vars

\* C10 witness: a combine over a sibling that holds arcs for a file, by a
\* store that holds no arcs; the sibling's lines were merged.
C10_Witness ==
    /\ op = "combine_parallel_data"
    /\ disk[Sib1] = RecTwo
    /\ "arcs" \in DOMAIN disk[Sib1].data
    /\ arcs = EmptyMap
    /\ X \in DOMAIN lines
    /\ lines[X] = Lines

====
